---- MODULE Spec2Model ----
(***************************************************************************)
(* Model of log_processor/log_processor.py: the line parser                *)
(* (LogEntryParser.parse_line), the accumulator (LogProcessor) and the     *)
(* control flow of main().                                                 *)
(*                                                                         *)
(* Representation.                                                         *)
(*  - A Python str is a sequence of one-character strings.                 *)
(*  - A float timestamp is the integer number of 10^-FracDigits seconds it *)
(*    denotes (Scale units per second).                                    *)
(*  - None is the empty sequence <<>>; an optional timestamp that is set   *)
(*    is the one-element sequence <<v>>.                                   *)
(*  - The eps value is held in hundredths (1.33 is 133).                   *)
(*  - A Counter is the sequence of its [ip, n] items in insertion order,   *)
(*    as a Python dict keeps them.                                         *)
(***************************************************************************)
EXTENDS Integers, Sequences, FiniteSets, TLC

VARIABLES
    pc,                 \* position of main() / of the harness of the other specifications
    args,               \* argparse.Namespace: the four metric flags
    input,              \* args.input: for each path, whether the file exists
    idx,                \* number of paths process_logs has gone through
    ip_counter,         \* LogProcessor.ip_counter
    earliest_timestamp, \* LogProcessor.earliest_timestamp
    latest_timestamp,   \* LogProcessor.latest_timestamp
    entries_count,      \* LogProcessor.entries_count
    total_bytes,        \* LogProcessor.total_bytes
    result,             \* the dict get_results returned
    err,                \* the exception that ended the run, "" if none
    written,            \* TRUE once OutputWriter.write has been invoked
    file,               \* the lines of the file process_file read last
    seen,               \* history: the records accepted so far, in input order
    line,               \* ParseSpec: the line handed to parse_line
    outcome,            \* ParseSpec: what parse_line did with it
    order               \* OrderSpec: the two files and the two runs

vars == <<pc, args, input, idx, ip_counter, earliest_timestamp, latest_timestamp,
          entries_count, total_bytes, result, err, written, file, seen,
          line, outcome, order>>

(***************************************************************************)
(* Bounds                                                                  *)
(***************************************************************************)
\* The most paths args.input holds.
MaxFiles == 2
\* The most lines a file holds.
MaxLines == 2
\* The most entries a run accepts over all its files (caps entries_count).
MaxEntries == 4
\* The digits kept after the decimal point of a timestamp.
FracDigits == 1

RECURSIVE Pow10(_)
Pow10(n) == IF n = 0 THEN 1 ELSE 10 * Pow10(n - 1)

Scale == Pow10(FracDigits)

(***************************************************************************)
(* Characters and strings                                                  *)
(***************************************************************************)
SP == " "
TAB == "\t"
NL == "\n"

None == <<>>

Digits == {"0", "1", "2", "3", "4", "5", "6", "7", "8", "9"}

DigitVal(c) ==
    CASE c = "0" -> 0 [] c = "1" -> 1 [] c = "2" -> 2 [] c = "3" -> 3
      [] c = "4" -> 4 [] c = "5" -> 5 [] c = "6" -> 6 [] c = "7" -> 7
      [] c = "8" -> 8 [] c = "9" -> 9

\* The characters str.strip() removes, among those of the model's alphabet.
IsSpace(c) == c \in {SP, TAB, NL}

AllDigits(s) == \A i \in 1..Len(s) : s[i] \in Digits

RECURSIVE NatVal(_)
NatVal(s) == IF s = <<>> THEN 0 ELSE 10 * NatVal(SubSeq(s, 1, Len(s) - 1)) + DigitVal(s[Len(s)])

RECURSIVE LStrip(_)
LStrip(s) == IF s # <<>> /\ IsSpace(s[1]) THEN LStrip(Tail(s)) ELSE s

RECURSIVE RStrip(_)
RStrip(s) == IF s # <<>> /\ IsSpace(s[Len(s)]) THEN RStrip(SubSeq(s, 1, Len(s) - 1)) ELSE s

Strip(s) == RStrip(LStrip(s))

\* A leading sign is split off.
Unsigned(s) == IF s # <<>> /\ s[1] \in {"-", "+"} THEN Tail(s) ELSE s
Sign(s) == IF s # <<>> /\ s[1] = "-" THEN -1 ELSE 1

\* int(s): surrounding whitespace stripped, an optional sign, then digits only.
IntOk(s) ==
    LET u == Unsigned(Strip(s)) IN u # <<>> /\ AllDigits(u)

IntVal(s) == Sign(Strip(s)) * NatVal(Unsigned(Strip(s)))

DotAt(u) == IF \E i \in 1..Len(u) : u[i] = "." THEN CHOOSE i \in 1..Len(u) : u[i] = "." /\ \A j \in 1..(i - 1) : u[j] # "." ELSE 0

\* float(s): surrounding whitespace stripped, an optional sign, then digits with
\* at most one point and at least one digit. Over the model's alphabet no
\* exponent, "inf" or "nan" can be spelled.
FloatOk(s) ==
    LET u == Unsigned(Strip(s))
        d == DotAt(u)
    IN  IF d = 0
        THEN u # <<>> /\ AllDigits(u)
        ELSE /\ AllDigits(SubSeq(u, 1, d - 1))
             /\ AllDigits(SubSeq(u, d + 1, Len(u)))
             /\ Len(u) > 1

\* The value of float(s) in units of 1/Scale seconds; the fractional part is
\* read to FracDigits digits (the lines of the model carry no more).
RECURSIVE PadFrac(_, _)
PadFrac(f, n) ==
    IF n = 0 THEN <<>>
    ELSE IF f = <<>> THEN <<"0">> \o PadFrac(<<>>, n - 1)
    ELSE <<f[1]>> \o PadFrac(Tail(f), n - 1)

FloatVal(s) ==
    LET u == Unsigned(Strip(s))
        d == DotAt(u)
        ip == IF d = 0 THEN u ELSE SubSeq(u, 1, d - 1)
        fp == IF d = 0 THEN <<>> ELSE SubSeq(u, d + 1, Len(u))
    IN  Sign(Strip(s)) * (NatVal(ip) * Scale + NatVal(PadFrac(fp, FracDigits)))

(***************************************************************************)
(* LogEntryParser.parse_line                                               *)
(***************************************************************************)
\* line.split(' '): the pieces between single spaces, empty pieces included.
RECURSIVE SplitSpace(_, _)
SplitSpace(s, cur) ==
    IF s = <<>> THEN <<cur>>
    ELSE IF s[1] = SP THEN <<cur>> \o SplitSpace(Tail(s), <<>>)
    ELSE SplitSpace(Tail(s), Append(cur, s[1]))

RECURSIVE NonEmpty(_)
NonEmpty(ps) ==
    IF ps = <<>> THEN <<>>
    ELSE IF ps[1] = <<>> THEN NonEmpty(Tail(ps))
    ELSE <<ps[1]>> \o NonEmpty(Tail(ps))

\* fields = [value for value in line.split(' ') if value]
Fields(l) == NonEmpty(SplitSpace(l, <<>>))

LogEntry(f) ==
    [timestamp |-> FloatVal(f[1]),
     response_header_size |-> IntVal(f[2]),
     client_ip |-> f[3],
     http_response_code |-> f[4],
     response_size |-> IntVal(f[5]),
     http_request_method |-> f[6],
     url |-> f[7],
     username |-> f[8],
     access_type |-> f[9],
     response_type |-> f[10]]

\* What a call of parse_line does: it returns a LogEntry ("entry"), returns
\* None ("none"), or float()/int() raises ValueError ("ValueError").
ParseFields(f) ==
    IF Len(f) # 10 THEN [kind |-> "none", entry |-> None]
    ELSE IF ~(FloatOk(f[1]) /\ IntOk(f[2]) /\ IntOk(f[5]))
         THEN [kind |-> "ValueError", entry |-> None]
         ELSE [kind |-> "entry", entry |-> LogEntry(f)]

ParseLine(l) == ParseFields(Fields(l))

(***************************************************************************)
(* The lines of the model                                                  *)
(***************************************************************************)
RECURSIVE Join(_, _)
Join(toks, sep) ==
    IF toks = <<>> THEN <<>>
    ELSE IF Len(toks) = 1 THEN toks[1]
    ELSE toks[1] \o sep \o Join(Tail(toks), sep)

\* The seven tokens of a log line the statistics never read.
Rest == << <<"2", "0", "0">>, <<"G", "E", "T">>, <<"/", "a">>, <<"u">>, <<"x">>, <<"y">> >>

\* The tokens of a line in the log format: timestamp, header size, client
\* ip, response code, response size and the five that follow.
Tokens(ts, hdr, ip, size) == <<ts, hdr, ip, Rest[1], size>> \o SubSeq(Rest, 2, 6)

LogLine(ts, hdr, ip, size) == Join(Tokens(ts, hdr, ip, size), <<SP>>) \o <<NL>>

\* The lines the files of a run are made of: three well-formed lines (at
\* 0 s, 1.5 s and 3 s, from three clients), a line of 8 tokens and a line
\* whose timestamp is not a number.
RunLines ==
    { LogLine(<<"0">>, <<"1">>, <<"p">>, <<"2">>),
      LogLine(<<"1", ".", "5">>, <<"2">>, <<"q">>, <<"0">>),
      LogLine(<<"3">>, <<"0">>, <<"r">>, <<"5">>),
      Join(SubSeq(Tokens(<<"3">>, <<"0">>, <<"r">>, <<"5">>), 1, 8), <<SP>>) \o <<NL>>,
      LogLine(<<"x">>, <<"1">>, <<"p">>, <<"2">>) }

\* The lines handed to parse_line on its own: 8 to 11 tokens, separated by
\* one space, two spaces or a tab, ended by nothing, a newline or a space and
\* a newline, with numeric fields that parse or do not.
ElevenTokens(ts, hdr, size) == Tokens(ts, hdr, <<"p">>, size) \o << <<"z">> >>

ParseLines ==
    { Join(SubSeq(ElevenTokens(ts, hdr, size), 1, n), sep) \o end :
        ts \in {<<"0">>, <<"1", ".", "5">>, <<"-", "2">>, <<"x">>},
        hdr \in {<<"1">>, <<"a">>},
        size \in {<<"2">>, <<"1", ".", "5">>},
        n \in 8..11,
        sep \in {<<SP>>, <<SP, SP>>, <<TAB>>},
        end \in {<<>>, <<NL>>, <<SP, NL>>} }

GoodLine == LogLine(<<"3">>, <<"0">>, <<"r">>, <<"5">>)

\* "for line in f": the lines of a file with this content, each up to and
\* with its newline; only the last one can lack it.
RECURSIVE ReadLines(_, _)
ReadLines(content, cur) ==
    IF content = <<>> THEN (IF cur = <<>> THEN <<>> ELSE <<cur>>)
    ELSE IF content[1] = NL
         THEN <<Append(cur, NL)>> \o ReadLines(Tail(content), <<>>)
         ELSE ReadLines(Tail(content), Append(cur, content[1]))

\* The file whose content is a line of ParseLines followed by GoodLine.
FileAfter(l) == ReadLines(l \o GoodLine, <<>>)

\* parse_line, tabulated once over the lines of the model.
Lines ==
    RunLines \cup ParseLines
        \cup UNION {{FileAfter(l)[i] : i \in DOMAIN FileAfter(l)} : l \in ParseLines}

ParseTable == [l \in Lines |-> ParseLine(l)]

parse_line(l) == ParseTable[l]

(***************************************************************************)
(* LogProcessor                                                            *)
(***************************************************************************)
Some(v) == <<v>>

\* LogProcessor.__init__
NewProcessor ==
    [ip_counter |-> <<>>,
     earliest_timestamp |-> None,
     latest_timestamp |-> None,
     entries_count |-> 0,
     total_bytes |-> 0,
     err |-> ""]

HasKey(c, ip) == \E i \in 1..Len(c) : c[i].ip = ip

\* counter[ip] += n: an existing key keeps its place, a new key goes last.
CounterAdd(c, ip, n) ==
    IF HasKey(c, ip)
    THEN [i \in 1..Len(c) |-> IF c[i].ip = ip THEN [ip |-> ip, n |-> c[i].n + n] ELSE c[i]]
    ELSE Append(c, [ip |-> ip, n |-> n])

\* Counter.update(other): other's items are added in other's insertion order.
RECURSIVE CounterUpdate(_, _)
CounterUpdate(c, other) ==
    IF other = <<>> THEN c
    ELSE CounterUpdate(CounterAdd(c, other[1].ip, other[1].n), Tail(other))

\* The body of the loop of process_file for one accepted entry.
ScanEntry(a, loc, e) ==
    [loc EXCEPT
        !.entries_count = @ + 1,
        !.ip_counter = IF a.mfip \/ a.lfip THEN CounterAdd(@, e.client_ip, 1) ELSE @,
        !.earliest_timestamp =
            IF a.eps /\ (@ = None \/ e.timestamp < @[1]) THEN Some(e.timestamp) ELSE @,
        !.latest_timestamp =
            IF a.eps /\ (@ = None \/ e.timestamp > @[1]) THEN Some(e.timestamp) ELSE @,
        !.total_bytes =
            IF a.bytes THEN @ + e.response_header_size + e.response_size ELSE @]

\* The loop of process_file over the lines of the file: the local counters,
\* or err = "ValueError" when parse_line raised.
RECURSIVE ScanLines(_, _, _)
ScanLines(a, lines, loc) ==
    IF lines = <<>> THEN loc
    ELSE LET p == parse_line(lines[1]) IN
         IF p.kind = "ValueError" THEN [loc EXCEPT !.err = "ValueError"]
         ELSE IF p.kind = "none" THEN ScanLines(a, Tail(lines), loc)
         ELSE ScanLines(a, Tail(lines), ScanEntry(a, loc, p.entry))

\* The merge of the local bounds into the shared ones. Comparing None with
\* a float raises TypeError.
MergeLow(shared, local) ==
    IF shared = None THEN [err |-> "", v |-> local]
    ELSE IF local = None THEN [err |-> "TypeError", v |-> shared]
    ELSE [err |-> "", v |-> IF local[1] < shared[1] THEN local ELSE shared]

MergeHigh(shared, local) ==
    IF shared = None THEN [err |-> "", v |-> local]
    ELSE IF local = None THEN [err |-> "TypeError", v |-> shared]
    ELSE [err |-> "", v |-> IF local[1] > shared[1] THEN local ELSE shared]

\* A merge that keeps the last file's byte total instead of adding it.
MergeCountsOverwrite(self, loc) ==
    [self EXCEPT
        !.entries_count = @ + loc.entries_count,
        !.total_bytes = loc.total_bytes,
        !.ip_counter = CounterUpdate(@, loc.ip_counter)]

MergeCounts(self, loc) ==
    [self EXCEPT
        !.entries_count = @ + loc.entries_count,
        !.total_bytes = @ + loc.total_bytes,
        !.ip_counter = CounterUpdate(@, loc.ip_counter)]

\* LogProcessor.process_file on a file with these lines: the processor after
\* the call, err naming the exception that left it.
process_file(a, self, lines) ==
    LET loc == ScanLines(a, lines, NewProcessor) IN
    IF loc.err # "" THEN [self EXCEPT !.err = loc.err]
    ELSE LET m == MergeCounts(self, loc) IN
         IF ~a.eps THEN m
         ELSE LET lo == MergeLow(self.earliest_timestamp, loc.earliest_timestamp) IN
              IF lo.err # "" THEN [m EXCEPT !.err = lo.err]
              ELSE LET hi == MergeHigh(self.latest_timestamp, loc.latest_timestamp) IN
                   IF hi.err # ""
                   THEN [m EXCEPT !.earliest_timestamp = lo.v, !.err = hi.err]
                   ELSE [m EXCEPT !.earliest_timestamp = lo.v, !.latest_timestamp = hi.v]

\* A maximum search that keeps the last maximum.
RECURSIVE LastMax(_, _)
LastMax(c, best) ==
    IF c = <<>> THEN best
    ELSE LastMax(Tail(c), IF c[1].n >= best.n THEN c[1] ELSE best)

\* Counter.most_common(1)[0]: max() over the items keeps the first maximum.
RECURSIVE FirstMax(_, _)
FirstMax(c, best) ==
    IF c = <<>> THEN best
    ELSE FirstMax(Tail(c), IF c[1].n > best.n THEN c[1] ELSE best)

most_common_1(c) == LET m == FirstMax(Tail(c), c[1]) IN <<m.ip, m.n>>

\* sorted(items, key=count, reverse=True): a stable sort, equal counts keep
\* their insertion order.
RECURSIVE InsertDesc(_, _)
InsertDesc(sorted, x) ==
    IF sorted = <<>> THEN <<x>>
    ELSE IF sorted[1].n >= x.n THEN <<sorted[1]>> \o InsertDesc(Tail(sorted), x)
    ELSE <<x>> \o sorted

RECURSIVE SortedDesc(_, _)
SortedDesc(c, acc) ==
    IF c = <<>> THEN acc ELSE SortedDesc(Tail(c), InsertDesc(acc, c[1]))

\* A least-common lookup that keeps the first minimum.
RECURSIVE FirstMin(_, _)
FirstMin(c, best) ==
    IF c = <<>> THEN best
    ELSE FirstMin(Tail(c), IF c[1].n < best.n THEN c[1] ELSE best)

least_common_first(c) == LET m == FirstMin(Tail(c), c[1]) IN <<m.ip, m.n>>

\* Counter.most_common()[-1]
most_common_last(c) ==
    LET s == SortedDesc(c, <<>>) IN <<s[Len(s)].ip, s[Len(s)].n>>

\* round(num / den, 2) in hundredths, for den > 0: to the nearest hundredth.
\* Python rounds the double nearest to the quotient, and an exactly
\* representable tie goes to the even neighbour; no quotient of the model's
\* entry counts and spans is a tie.
RoundHundredths(num, den) ==
    LET n == 100 * num
        q == n \div den
        r == n % den
    IN  IF 2 * r < den THEN q
        ELSE IF 2 * r > den THEN q + 1
        ELSE IF q % 2 = 0 THEN q ELSE q + 1

\* A timestamp operand of "not": None and 0.0 are false.
Falsy(t) == t = None \/ t[1] = 0

NoResult == [keys |-> {}, mfip |-> None, lfip |-> None, eps |-> 0, bytes |-> 0]

\* The eps branch of get_results.
EpsOutcome(self) ==
    IF self.entries_count = 0 THEN [err |-> "NoEntriesFoundError", v |-> 0]
    ELSE IF Falsy(self.earliest_timestamp) \/ Falsy(self.latest_timestamp)
         THEN [err |-> "NoTimeElapsedError", v |-> 0]
    ELSE IF self.latest_timestamp[1] - self.earliest_timestamp[1] = 0
         THEN [err |-> "ZeroDivisionError", v |-> 0]
    ELSE [err |-> "",
          v |-> RoundHundredths(self.entries_count * Scale,
                                self.latest_timestamp[1] - self.earliest_timestamp[1])]

Keys(a) ==
    {k \in {"mfip", "lfip", "eps", "bytes"} :
        \/ k = "mfip" /\ a.mfip
        \/ k = "lfip" /\ a.lfip
        \/ k = "eps" /\ a.eps
        \/ k = "bytes" /\ a.bytes}

\* LogProcessor.get_results: the dict returned, or err naming the exception.
get_results(a, self) ==
    LET e == IF a.eps THEN EpsOutcome(self) ELSE [err |-> "", v |-> 0] IN
    IF e.err # "" THEN [err |-> e.err, result |-> NoResult]
    ELSE [err |-> "",
          result |->
            [keys |-> Keys(a),
             mfip |-> IF a.mfip /\ self.ip_counter # <<>>
                      THEN most_common_1(self.ip_counter) ELSE None,
             lfip |-> IF a.lfip /\ self.ip_counter # <<>>
                      THEN most_common_last(self.ip_counter) ELSE None,
             eps |-> e.v,
             bytes |-> IF a.bytes THEN self.total_bytes ELSE 0]]

(***************************************************************************)
(* The inputs of a run                                                     *)
(***************************************************************************)
SeqsUpTo(S, n) == UNION {[1..k -> S] : k \in 0..n}

Files == SeqsUpTo(RunLines, MaxLines)

Flags == [mfip : BOOLEAN, lfip : BOOLEAN, eps : BOOLEAN, bytes : BOOLEAN]

\* args.input: one or more paths, each to a file that exists or not.
Inputs == UNION {[1..k -> BOOLEAN] : k \in 1..MaxFiles}

\* History: the entries for which "if log_entry" holds in the loop of
\* process_file, in order. The loop ends at the first line on which
\* parse_line raises: the lines after it are never read.
RECURSIVE Accepted(_)
Accepted(lines) ==
    IF lines = <<>> THEN <<>>
    ELSE LET p == parse_line(lines[1]) IN
         IF p.kind = "ValueError" THEN <<>>
         ELSE IF p.kind = "entry" THEN <<p.entry>> \o Accepted(Tail(lines))
         ELSE Accepted(Tail(lines))

(***************************************************************************)
(* main()                                                                  *)
(***************************************************************************)
Self ==
    [ip_counter |-> ip_counter,
     earliest_timestamp |-> earliest_timestamp,
     latest_timestamp |-> latest_timestamp,
     entries_count |-> entries_count,
     total_bytes |-> total_bytes,
     err |-> ""]

SetSelf(r) ==
    /\ ip_counter' = r.ip_counter
    /\ earliest_timestamp' = r.earliest_timestamp
    /\ latest_timestamp' = r.latest_timestamp
    /\ entries_count' = r.entries_count
    /\ total_bytes' = r.total_bytes

Idle ==
    /\ line = <<>>
    /\ outcome = [kind |-> "", entry |-> None]
    /\ order = [A |-> <<>>, B |-> <<>>, ab |-> NewProcessor, ba |-> NewProcessor]

Fresh ==
    /\ idx = 0
    /\ ip_counter = <<>>
    /\ earliest_timestamp = None
    /\ latest_timestamp = None
    /\ entries_count = 0
    /\ total_bytes = 0
    /\ result = NoResult
    /\ err = ""
    /\ written = FALSE
    /\ file = <<>>
    /\ seen = <<>>

Init ==
    /\ pc = "parse_args"
    /\ args \in Flags
    /\ input \in Inputs
    /\ Fresh
    /\ Idle

\* ArgParser.parse_args: without a metric flag the script exits.
ParseArgs ==
    /\ pc = "parse_args"
    /\ pc' = IF args.mfip \/ args.lfip \/ args.eps \/ args.bytes THEN "process_logs" ELSE "exit"
    /\ UNCHANGED <<args, input, idx, ip_counter, earliest_timestamp, latest_timestamp,
                   entries_count, total_bytes, result, err, written, file, seen,
                   line, outcome, order>>

\* One turn of the loop of process_logs on a path that exists: process_file
\* on the file's lines.
ProcessFile ==
    /\ pc = "process_logs"
    /\ idx < Len(input)
    /\ input[idx + 1]
    /\ \E f \in Files : \E acc \in {Accepted(f)} :
        /\ Len(seen) + Len(acc) <= MaxEntries
        /\ \E r \in {process_file(args, Self, f)} :
            /\ file' = f
            /\ SetSelf(r)
            /\ err' = r.err
            /\ seen' = IF r.err = "ValueError" THEN seen ELSE seen \o acc
            /\ IF r.err = "" THEN pc' = pc /\ idx' = idx + 1 ELSE pc' = "failed" /\ idx' = idx
    /\ UNCHANGED <<args, input, result, written, line, outcome, order>>

\* A loop that skips a path that does not exist.
MissingFileSkipped ==
    /\ pc = "process_logs"
    /\ idx < Len(input)
    /\ ~input[idx + 1]
    /\ idx' = idx + 1
    /\ UNCHANGED <<pc, args, input, ip_counter, earliest_timestamp, latest_timestamp,
                   entries_count, total_bytes, result, err, written, file, seen,
                   line, outcome, order>>

\* One turn of the loop of process_logs on a path that does not exist.
MissingFile ==
    /\ pc = "process_logs"
    /\ idx < Len(input)
    /\ ~input[idx + 1]
    /\ pc' = "failed"
    /\ err' = "FileNotFoundError"
    /\ UNCHANGED <<args, input, idx, ip_counter, earliest_timestamp, latest_timestamp,
                   entries_count, total_bytes, result, written, file, seen,
                   line, outcome, order>>

\* process_logs has returned: result = processor.get_results()
GetResults ==
    /\ pc = "process_logs"
    /\ idx = Len(input)
    /\ LET g == get_results(args, Self) IN
        /\ result' = g.result
        /\ err' = g.err
        /\ pc' = IF g.err = "" THEN "write" ELSE "failed"
    /\ UNCHANGED <<args, input, idx, ip_counter, earliest_timestamp, latest_timestamp,
                   entries_count, total_bytes, written, file, seen, line, outcome, order>>

\* writer.write(result)
Write ==
    /\ pc = "write"
    /\ written' = TRUE
    /\ pc' = "done"
    /\ UNCHANGED <<args, input, idx, ip_counter, earliest_timestamp, latest_timestamp,
                   entries_count, total_bytes, result, err, file, seen, line, outcome, order>>

Next == ParseArgs \/ ProcessFile \/ MissingFile \/ GetResults \/ Write

Spec == Init /\ [][Next]_vars

(***************************************************************************)
(* ParseSpec: parse_line on one line, then process_file on the file whose   *)
(* content is that line followed by a well-formed line.                    *)
(***************************************************************************)
AllFlags == [mfip |-> TRUE, lfip |-> TRUE, eps |-> TRUE, bytes |-> TRUE]

ParseInit ==
    /\ pc = "parse_line"
    /\ args = AllFlags
    /\ input = <<TRUE>>
    /\ Fresh
    /\ line \in ParseLines
    /\ outcome = [kind |-> "", entry |-> None]
    /\ order = [A |-> <<>>, B |-> <<>>, ab |-> NewProcessor, ba |-> NewProcessor]

\* log_entry = LogEntryParser.parse_line(line)
ParseOne ==
    /\ pc = "parse_line"
    /\ outcome' = parse_line(line)
    /\ pc' = "parsed"
    /\ UNCHANGED <<args, input, idx, ip_counter, earliest_timestamp, latest_timestamp,
                   entries_count, total_bytes, result, err, written, file, seen,
                   line, order>>

\* process_file on the file whose content is line followed by GoodLine: two
\* lines when line ends with a newline, one merged line when it does not.
ScanAfter ==
    /\ pc = "parsed"
    /\ \E r \in {process_file(args, Self, FileAfter(line))} :
        /\ file' = FileAfter(line)
        /\ SetSelf(r)
        /\ err' = r.err
        /\ seen' = IF r.err = "ValueError" THEN seen ELSE Accepted(FileAfter(line))
        /\ IF r.err = "" THEN pc' = "scanned" /\ idx' = idx + 1 ELSE pc' = "failed" /\ idx' = idx
    /\ UNCHANGED <<args, input, result, written, line, outcome, order>>

ParseNext == ParseOne \/ ScanAfter

ParseSpec == ParseInit /\ [][ParseNext]_vars

(***************************************************************************)
(* OrderSpec: process_logs over two existing files, in both orders.        *)
(***************************************************************************)
\* LogProcessor.process_logs over files that all exist.
RECURSIVE process_logs(_, _, _)
process_logs(a, self, files) ==
    IF files = <<>> THEN self
    ELSE LET r == process_file(a, self, files[1]) IN
         IF r.err # "" THEN r ELSE process_logs(a, r, Tail(files))

\* The files whose every line parse_line returns from, so that the two runs
\* differ in the order of the merges only.
OrderFiles == {f \in Files : \A i \in DOMAIN f : parse_line(f[i]).kind # "ValueError"}

OrderInit ==
    /\ pc = "order"
    /\ args \in {a \in Flags : a.mfip \/ a.lfip \/ a.eps \/ a.bytes}
    /\ input = <<TRUE, TRUE>>
    /\ Fresh
    /\ line = <<>>
    /\ outcome = [kind |-> "", entry |-> None]
    /\ \E A \in OrderFiles, B \in OrderFiles :
        order = [A |-> A, B |-> B, ab |-> NewProcessor, ba |-> NewProcessor]

\* A run of process_logs over [A, B].
RunAB ==
    /\ pc = "order"
    /\ order' = [order EXCEPT !.ab = process_logs(args, NewProcessor, <<order.A, order.B>>)]
    /\ pc' = "order_ab"
    /\ UNCHANGED <<args, input, idx, ip_counter, earliest_timestamp, latest_timestamp,
                   entries_count, total_bytes, result, err, written, file, seen,
                   line, outcome>>

\* A run of process_logs over [B, A].
RunBA ==
    /\ pc = "order_ab"
    /\ order' = [order EXCEPT !.ba = process_logs(args, NewProcessor, <<order.B, order.A>>)]
    /\ pc' = "order_done"
    /\ UNCHANGED <<args, input, idx, ip_counter, earliest_timestamp, latest_timestamp,
                   entries_count, total_bytes, result, err, written, file, seen,
                   line, outcome>>

OrderNext == RunAB \/ RunBA

OrderSpec == OrderInit /\ [][OrderNext]_vars

(***************************************************************************)
(* What the history says the statistics are                                *)
(***************************************************************************)
GotResults == pc \in {"write", "done"}

ResultsFailed == pc = "failed" /\ idx = Len(input)

ResultsCalled == GotResults \/ ResultsFailed

Timestamps == {seen[i].timestamp : i \in DOMAIN seen}

MinTs == CHOOSE t \in Timestamps : \A u \in Timestamps : t <= u

MaxTs == CHOOSE t \in Timestamps : \A u \in Timestamps : t >= u

RECURSIVE SumBytes(_)
SumBytes(es) ==
    IF es = <<>> THEN 0
    ELSE es[1].response_header_size + es[1].response_size + SumBytes(Tail(es))

Ips == {seen[i].client_ip : i \in DOMAIN seen}

CountOf(ip) == Cardinality({i \in DOMAIN seen : seen[i].client_ip = ip})

FirstSeenAt(ip) == CHOOSE i \in DOMAIN seen : seen[i].client_ip = ip /\ \A j \in 1..(i - 1) : seen[j].client_ip # ip

Highest == {ip \in Ips : \A other \in Ips : CountOf(ip) >= CountOf(other)}

Lowest == {ip \in Ips : \A other \in Ips : CountOf(ip) <= CountOf(other)}

FirstOf(S) == CHOOSE ip \in S : \A other \in S : FirstSeenAt(ip) <= FirstSeenAt(other)

LastOf(S) == CHOOSE ip \in S : \A other \in S : FirstSeenAt(ip) >= FirstSeenAt(other)

\* The tokens str.split() gives: the pieces between runs of whitespace.
RECURSIVE SplitWhitespace(_, _)
SplitWhitespace(s, cur) ==
    IF s = <<>> THEN (IF cur = <<>> THEN <<>> ELSE <<cur>>)
    ELSE IF IsSpace(s[1])
         THEN (IF cur = <<>> THEN <<>> ELSE <<cur>>) \o SplitWhitespace(Tail(s), <<>>)
         ELSE SplitWhitespace(Tail(s), Append(cur, s[1]))

WsTokens(l) == SplitWhitespace(l, <<>>)

NumericOk(t) == FloatOk(t[1]) /\ IntOk(t[2]) /\ IntOk(t[5])

(***************************************************************************)
(* Properties                                                              *)
(***************************************************************************)

\* C1: with eps requested, when get_results is called after at least one
\* entry was accepted and all accepted entries carry the same timestamp, it
\* fails with NoTimeElapsedError and with nothing else.
C1_SameTimestampRaisesNoTimeElapsed ==
    (args.eps /\ ResultsCalled /\ seen # <<>> /\ MinTs = MaxTs)
        => (pc = "failed" /\ err = "NoTimeElapsedError")

\* C2 as stated: with lfip requested and a non-empty counter, get_results
\* returns the ip of lowest count, and among the ips of lowest count the one
\* encountered first.
C2_LfipFirstEncountered ==
    (GotResults /\ args.lfip /\ seen # <<>>)
        => result.lfip = <<FirstOf(Lowest), CountOf(FirstOf(Lowest))>>

\* C2 amended: with lfip requested and a non-empty counter, the result of
\* get_results holds the ip of lowest count, and among the ips of lowest
\* count the one whose first occurrence in the input comes last.
C2_LfipLastEncountered ==
    (GotResults /\ args.lfip /\ seen # <<>>)
        => result.lfip = <<LastOf(Lowest), CountOf(LastOf(Lowest))>>

\* C2 witness: results returned after two files, several ips share the lowest
\* count and another ip has a higher one.
C2_Witness ==
    /\ GotResults /\ args.lfip /\ idx = 2
    /\ Cardinality(Lowest) >= 2
    /\ Cardinality(Ips) > Cardinality(Lowest)

\* C3: parse_line never raises, on no line of the file: a line of 10 tokens
\* whose numeric fields do not parse yields None, and when a line follows it
\* in the file, process_file goes on to that line and counts it.
C3_ParseLineNeverRaises ==
    /\ outcome.kind # "ValueError"
    /\ (pc # "parse_line" /\ Len(Fields(line)) = 10 /\ ~NumericOk(Fields(line)))
           => outcome.kind = "none"
    /\ err # "ValueError"
    /\ (pc = "scanned" /\ file = <<line, GoodLine>>) => entries_count >= 1

\* C4: process_logs over [A, B] and over [B, A] both complete and end with
\* the same entries_count, total_bytes, per-ip counts, earliest_timestamp and
\* latest_timestamp.
Items(c) == {c[i] : i \in DOMAIN c}

C4_MergeOrderIndependent ==
    pc = "order_done" =>
        /\ order.ab.err = ""
        /\ order.ba.err = ""
        /\ order.ab.entries_count = order.ba.entries_count
        /\ order.ab.total_bytes = order.ba.total_bytes
        /\ Items(order.ab.ip_counter) = Items(order.ba.ip_counter)
        /\ order.ab.earliest_timestamp = order.ba.earliest_timestamp
        /\ order.ab.latest_timestamp = order.ba.latest_timestamp

\* C5: with eps requested, at least one entry accepted and two different
\* timestamps among the entries, get_results returns
\* eps = entries / (latest - earliest) rounded to 2 decimals; it raises
\* NoTimeElapsedError only when the span is zero or a bound is unset.
C5_DistinctTimestampsGiveEps ==
    /\ (args.eps /\ ResultsCalled /\ seen # <<>> /\ MinTs # MaxTs)
           => (GotResults /\ result.eps = RoundHundredths(Len(seen) * Scale, MaxTs - MinTs))
    /\ (ResultsFailed /\ err = "NoTimeElapsedError")
           => (seen = <<>> \/ MinTs = MaxTs)

\* C6: with bytes requested, the accumulated and the reported total are the
\* sum of response_header_size + response_size over the accepted entries of
\* all files (0 when there is none), lines that yield no entry add nothing,
\* and the bytes metric raises nothing: get_results fails only under eps.
C6_TotalBytesIsSum ==
    /\ args.bytes => total_bytes = SumBytes(seen)
    /\ (GotResults /\ args.bytes) => result.bytes = SumBytes(seen)
    /\ (ResultsCalled /\ args.bytes /\ ~args.eps) => (GotResults /\ err = "")

\* C6 witness: a total reported after two files that both added entries, the
\* last one holding a line that yields no entry.
C6_Witness ==
    /\ pc = "done" /\ args.bytes /\ idx = 2
    /\ Len(Accepted(file)) >= 1
    /\ Len(seen) > Len(Accepted(file))
    /\ Len(file) > Len(Accepted(file))
    /\ result.bytes > 0

\* C7: with mfip requested, the result of get_results holds the ip of highest
\* total count, among the ips of highest count the one encountered first,
\* and None when no ip was counted; the mfip metric raises nothing:
\* get_results fails only under eps.
C7_MfipFirstEncountered ==
    /\ (GotResults /\ args.mfip)
           => result.mfip = IF seen = <<>> THEN None
                            ELSE <<FirstOf(Highest), CountOf(FirstOf(Highest))>>
    /\ (ResultsCalled /\ args.mfip /\ ~args.eps) => GotResults

\* C7 witness: results returned after two files, two ips tied at the highest
\* count, a count that sums occurrences.
C7_Witness ==
    /\ GotResults /\ args.mfip /\ idx = 2
    /\ Cardinality(Highest) >= 2
    /\ CountOf(FirstOf(Highest)) >= 2

\* C8: the output is written only after every input path was processed and
\* get_results returned; once a fatal condition occurred, or parse_args
\* exited, write is not invoked.
C8_AllOrNothing ==
    /\ written => /\ pc = "done"
                  /\ err = ""
                  /\ idx = Len(input)
                  /\ \A i \in DOMAIN input : input[i]
                  /\ result.keys = Keys(args)
    /\ (pc \in {"failed", "exit"} \/ err # "") => ~written

\* C8 witness: a missing file met after an earlier file was merged.
C8_Witness ==
    /\ pc = "failed" /\ err = "FileNotFoundError"
    /\ idx >= 1 /\ entries_count > 0
    /\ ~written

\* C9: tokens are the pieces between runs of whitespace; a line whose token
\* count is not 10 yields no entry and, when it is a line of the file read,
\* processing goes on without failure; 10 tokens separated by any whitespace
\* (numeric fields parsing) yield an entry.
C9_TokensAreWhitespaceSeparated ==
    pc # "parse_line" =>
        /\ Len(WsTokens(line)) # 10
               => (outcome.kind = "none" /\ (file = <<line, GoodLine>> => pc # "failed"))
        /\ (Len(WsTokens(line)) = 10 /\ NumericOk(WsTokens(line)))
               => outcome.kind = "entry"

\* C10: with eps requested, every process_file call completes, and the shared
\* earliest_timestamp and latest_timestamp are the minimum and maximum
\* timestamp of the entries accepted so far, both unset when there is none.
C10_SharedBoundsAreMinMax ==
    args.eps =>
        /\ err # "TypeError"
        /\ (pc \in {"process_logs", "write", "done"} \/ ResultsFailed)
               => IF seen = <<>>
                  THEN earliest_timestamp = None /\ latest_timestamp = None
                  ELSE earliest_timestamp = <<MinTs>> /\ latest_timestamp = <<MaxTs>>

====
